---- MODULE Spec2Model ----
(***************************************************************************)
(* The listening loop of the VoiceListener component                       *)
(* (src/src/components/VoiceListener.tsx): the capture sessions it         *)
(* creates, the handlers it attaches to them (onstart, onresult, onerror,  *)
(* onend), the dispatch of an utterance (handleVoiceCommand), the failure  *)
(* counter (logAction / consecutiveErrors), the recovery step              *)
(* (handleRecovery), the timers it arms and the cleanup of the component.  *)
(*                                                                         *)
(* The component is a React function component.  Its only effect has the   *)
(* dependency list [] (lines 1177-1186), so the startListening that runs,  *)
(* and every handler and helper it reaches, belongs to the render that was *)
(* current when the effect ran: they read isListening and                  *)
(* consecutiveErrors as that render saw them (variable closure), while the *)
(* setters write the live React state (variables isListening and           *)
(* consecutiveErrors).                                                     *)
(*                                                                         *)
(* JavaScript runs a handler to completion; the continuation of an await   *)
(* whose promise has settled runs as a microtask before any other event.   *)
(* A dispatch in position "cont" is such a pending microtask and no other  *)
(* action is enabled until it has run.                                     *)
(***************************************************************************)
EXTENDS Naturals, Integers, FiniteSets, Sequences, TLC

\* Bounds of the model.
MaxSessions == 2     \* capture sessions alive at the same time
MaxHandlers == 2     \* onresult invocations in flight at the same time
MaxTimers   == 1     \* pending timers of one kind
MaxResults  == 2     \* results carried by one result event
MaxErrors   == 3     \* cap of the failure counter

\* handleRecovery: if (consecutiveErrors >= 3)
RecoveryThreshold == 3

Sessions   == 1..MaxSessions
Handlers   == 1..MaxHandlers
TimerKinds == {"resume", "recovery"}
ErrorCodes == {"aborted", "other"}
Outcomes   == {"handled", "unhandled", "error"}

VARIABLES
    apiExists,          \* "webkitSpeechRecognition" in window
    mounted,            \* the effect of the component has run
    disposed,           \* the cleanup of the effect has run
    closure,            \* isListening, consecutiveErrors as seen by the render whose effect ran
    sess,               \* state of every capture session object
    recognitionRef,     \* recognitionRef.current: a session, or 0 for null
    isListening,        \* React state isListening
    consecutiveErrors,  \* React state consecutiveErrors (the RecoveryCounter)
    timers,             \* pending setTimeout callbacks, by kind
    handlers,           \* the onresult invocations: position and results left
    lastEvent,          \* history: what the last step was
    failStreak,         \* history: failed commands and recognition errors since the last handled command
    handed              \* history, kept in the behaviours of CaptureSpec ("off" elsewhere): a result
                        \* of the session's list was passed to a handler already ("yes") or not ("no")

\* One dispatch (handleVoiceCommand) in detail.
VARIABLES
    dpc,                \* position of the dispatch
    utt,                \* the utterance being dispatched
    intent,             \* the primary intent returned by classifyPrimaryIntent
    gwCalls,            \* Gateway calls (model.generateContent) made by this dispatch
    pathways,           \* interpreters invoked by this dispatch, in order
    calls,              \* external mutations made by this dispatch, in order
    dlog,               \* success flags passed to logAction by this dispatch, in order
    resp,               \* Gateway outcome consumed by the last interpreter that ran
    reads,              \* page state and profile snapshot read by the last interpreter that ran
    handled,            \* the flag `handled` when the dispatch ends
    before,             \* history: the failure counter when the dispatch began
    status,             \* setLastAction calls of this dispatch, in order
    diag,               \* console output of the user-info interpreter in this dispatch
    written             \* the texts handleVoiceCommand itself passes to logAction and to
                        \* setLastAction in this dispatch, in order

\* The filter store, and an application followed by a removal on it.
VARIABLES
    filters,            \* the selection the filter store holds
    probe               \* the dimension and value applied and removed, and the selections seen

\* The ActionLog, and the calls of logAction that filled it.
VARIABLES
    actionLog,          \* React state actionLog
    logHistory,         \* history: every entry passed to setActionLog, newest first
    clock               \* Date.now()

\* The two variants of the component, side by side on the same inputs.
VARIABLES
    variant             \* the utterance and the responses, and what the simpler variant's
                        \* interpreters returned and wrote

lvars == <<actionLog, logHistory, clock>>

svars == <<filters, probe, lvars, variant>>

\* What the listening loop leaves alone.
dvars == <<dpc, utt, intent, gwCalls, pathways, calls, dlog, resp, reads, handled, before,
           status, diag, written, svars>>

vars == <<apiExists, mounted, disposed, closure, sess, recognitionRef,
          isListening, consecutiveErrors, timers, handlers, lastEvent, failStreak, handed,
          dpc, utt, intent, gwCalls, pathways, calls, dlog, resp, reads, handled, before,
          status, diag, written, filters, probe, actionLog, logHistory, clock, variant>>

\* Everything a dispatch leaves alone: the listening loop but the failure
\* counter, and the store variables.
loopRest == <<apiExists, mounted, disposed, closure, sess, recognitionRef,
              isListening, timers, handlers, lastEvent, failStreak, handed, svars>>

\* The listening loop and the dispatch.
pvars == <<apiExists, mounted, disposed, closure, sess, recognitionRef,
           isListening, consecutiveErrors, timers, handlers, lastEvent, failStreak, handed,
           dpc, utt, intent, gwCalls, pathways, calls, dlog, resp, reads, handled, before,
           status, diag, written, lvars, variant>>

\* The listening loop and the dispatch without the failure counter, and
\* the store.
qvars == <<apiExists, mounted, disposed, closure, sess, recognitionRef,
           isListening, timers, handlers, lastEvent, failStreak, handed,
           dpc, utt, intent, gwCalls, pathways, calls, dlog, resp, reads, handled, before,
           status, diag, written, filters, probe, variant>>

\* Everything but the side-by-side run of the simpler variant.
zvars == <<apiExists, mounted, disposed, closure, sess, recognitionRef,
           isListening, consecutiveErrors, timers, handlers, lastEvent, failStreak, handed,
           dpc, utt, intent, gwCalls, pathways, calls, dlog, resp, reads, handled, before,
           status, diag, written, filters, probe, lvars>>

IdleHandler == [pc |-> "idle", remaining |-> 0]

\* A session object: not created, start() called, onstart fired,
\* stop() called, error fired, end fired (kept while the ref names it).
SessStates == {"free", "starting", "active", "stopping", "errored", "ended"}

Live(st) == st \in {"starting", "active"}

\* An ended session no reference names is garbage.
Release(sm, r) ==
    [s \in Sessions |-> IF sm[s] = "ended" /\ s # r THEN "free" ELSE sm[s]]

\* SpeechRecognition.stop() on the session r names: a started session
\* stops listening; on any other it has no effect.
stop(sm, r) ==
    IF r # 0 /\ Live(sm[r]) THEN [sm EXCEPT ![r] = "stopping"] ELSE sm

Min(S) == CHOOSE x \in S : \A y \in S : x <= y

\* event.results is the list of all results of the session since its
\* start(): only a session that can fire a result event has one.
Fresh(sm, hd) ==
    [s \in Sessions |-> IF hd[s] = "yes" /\ sm[s] \notin {"active", "stopping"}
                        THEN "no" ELSE hd[s]]

Reusable(sm) == {s \in Sessions : sm[s] \in {"free", "ended"}}

MicrotaskPending == \E h \in Handlers : handlers[h].pc = "cont"

InFlight == {h \in Handlers : handlers[h].pc # "idle"}

Bump(n) == IF n < RecoveryThreshold THEN n + 1 ELSE n

\* A logAction that never resets the counter.
logAction_NoReset(c, success) == IF success THEN c ELSE c + 1

\* logAction: the failure counter after logging one action.
\* (The entry prepended to actionLog does not influence the loop.)
logAction(c, success) == IF success THEN 0 ELSE c + 1

TypeOK ==
    /\ apiExists \in BOOLEAN
    /\ mounted \in BOOLEAN
    /\ disposed \in BOOLEAN
    /\ closure \in [isListening : BOOLEAN, consecutiveErrors : 0..MaxErrors]
    /\ sess \in [Sessions -> SessStates]
    /\ recognitionRef \in 0..MaxSessions
    /\ isListening \in BOOLEAN
    /\ consecutiveErrors \in 0..MaxErrors
    /\ timers \in [TimerKinds -> 0..MaxTimers]
    /\ handlers \in [Handlers -> [pc : {"idle", "classify", "interpret", "cont"},
                                  remaining : 0..MaxResults]]
    /\ failStreak \in 0..RecoveryThreshold

\* The state of a freshly rendered component, before its effect runs:
\* useState(false), useState(0), useRef(null).
NoResp  == [kind |-> "none"]
NoInfo  == [f \in {"name", "email", "address", "phone", "cardName", "cardNumber",
                    "expiryDate", "cvv"} |-> "<unread>"]
NoReads == [page |-> "unread", info |-> NoInfo, submit |-> "unread"]

\* No dispatch has begun.
DispatchInit ==
    /\ dpc = "idle"
    /\ utt = 0
    /\ intent = ""
    /\ gwCalls = 0
    /\ pathways = <<>>
    /\ calls = <<>>
    /\ dlog = <<>>
    /\ resp = NoResp
    /\ reads = NoReads
    /\ handled = "pending"
    /\ before = 0
    /\ status = <<>>
    /\ diag = <<>>
    /\ written = <<>>

\* An empty selection; no application is being followed.
NoFilters ==
    [dims  |-> [colors |-> <<>>, sizes |-> <<>>, materials |-> <<>>, genders |-> <<>>,
                brands |-> <<>>, subCategories |-> <<>>],
     price |-> [kind |-> "absent", vals |-> <<>>]]
NoProbe ==
    [pc |-> "off", d |-> "", v |-> [w |-> "", c |-> "lower"],
     before |-> NoFilters, applied |-> NoFilters]

StoreInit ==
    /\ filters = NoFilters
    /\ probe = NoProbe

\* The component after construction.
ProgramInit ==
    /\ DispatchInit
    /\ apiExists \in BOOLEAN
    /\ mounted = FALSE
    /\ disposed = FALSE
    /\ closure = [isListening |-> FALSE, consecutiveErrors |-> 0]
    /\ sess = [s \in Sessions |-> "free"]
    /\ recognitionRef = 0
    /\ isListening = FALSE
    /\ consecutiveErrors = 0
    /\ timers = [k \in TimerKinds |-> 0]
    /\ handlers = [h \in Handlers |-> IdleHandler]
    /\ lastEvent = "init"
    /\ failStreak = 0
    /\ actionLog = <<>>
    /\ logHistory = <<>>
    /\ clock = 0

\* The result lists of the sessions are not followed.
Untracked == handed = [s \in Sessions |-> "off"]

\* The simpler variant is not run.
NoVariant == [pc |-> "off"]
OneVariant == variant = NoVariant

Init == ProgramInit /\ StoreInit /\ Untracked /\ OneVariant

\* The guard of startListening, as the closure evaluates it.
CanStart == apiExists /\ ~closure.isListening

\* startListening.  ok: recognitionRef.current.start() returns normally;
\* otherwise it throws and the catch logs the failure and drops the session.
startListening(ok) ==
    IF CanStart
    THEN IF ok
         THEN /\ Reusable(sess) # {}
              /\ LET s == Min(Reusable(sess)) IN
                    /\ sess' = Release([sess EXCEPT ![s] = "starting"], s)
                    /\ recognitionRef' = s
              /\ UNCHANGED <<isListening, consecutiveErrors>>
         ELSE /\ consecutiveErrors < MaxErrors
              /\ sess' = Release(sess, 0)
              /\ recognitionRef' = 0
              /\ isListening' = FALSE
              /\ consecutiveErrors' = logAction(consecutiveErrors, FALSE)
    ELSE /\ ok
         /\ UNCHANGED <<sess, recognitionRef, isListening, consecutiveErrors>>

StartEvent(ok, name) == IF CanStart /\ ~ok THEN "start_failed" ELSE name

\* useEffect(() => { startListening(); ... }, []): the effect runs once and
\* binds the handlers of the render it belongs to.
Mount ==
    /\ UNCHANGED dvars
    /\ ~mounted
    /\ mounted' = TRUE
    /\ closure' = [isListening |-> isListening, consecutiveErrors |-> consecutiveErrors]
    /\ \E ok \in BOOLEAN :
          /\ startListening(ok)
          /\ lastEvent' = StartEvent(ok, "mount")
    /\ UNCHANGED <<apiExists, disposed, timers, handlers, failStreak>>
    /\ handed' = Fresh(sess', handed)

\* onstart of session s.
OnStart(s) ==
    /\ UNCHANGED dvars
    /\ ~MicrotaskPending
    /\ sess[s] = "starting"
    /\ sess' = [sess EXCEPT ![s] = "active"]
    /\ isListening' = TRUE
    /\ consecutiveErrors' = logAction(consecutiveErrors, TRUE)
    /\ lastEvent' = "onstart"
    /\ UNCHANGED <<apiExists, mounted, disposed, closure, recognitionRef, timers,
                   handlers, failStreak>>
    /\ handed' = Fresh(sess', handed)

\* onresult of session s, with n results in the list of the event: the
\* results of earlier events of the session and at least one new one.  A
\* stopped session may still deliver the result of the audio it has
\* captured.  The handler takes the list from its first result
\* ("result_again": the list holds results passed to a handler before).  It
\* stops the session the ref names (a TypeError when the ref is null: the
\* invocation ends there), logs the first command and enters
\* handleVoiceCommand up to its first await.
OnResult(s, n) ==
    /\ UNCHANGED dvars
    /\ ~MicrotaskPending
    /\ sess[s] \in {"active", "stopping"}
    /\ handed[s] = "yes" => n > 1
    /\ IF recognitionRef = 0
       THEN /\ lastEvent' = "result_lost"
            /\ UNCHANGED <<sess, consecutiveErrors, handlers, handed>>
       ELSE /\ \E h \in Handlers : handlers[h].pc = "idle"
            /\ LET h == Min({x \in Handlers : handlers[x].pc = "idle"}) IN
                  handlers' = [handlers EXCEPT ![h] = [pc |-> "classify", remaining |-> n - 1]]
            /\ sess' = stop(sess, recognitionRef)
            /\ handed' = [handed EXCEPT ![s] = IF @ = "off" THEN @ ELSE "yes"]
            /\ consecutiveErrors' = logAction(logAction(consecutiveErrors, TRUE), TRUE)
            /\ lastEvent' = IF handed[s] = "yes" THEN "result_again" ELSE "result"
    /\ UNCHANGED <<apiExists, mounted, disposed, closure, recognitionRef, isListening,
                   timers, failStreak>>

\* classifyPrimaryIntent settles (with a category, or with
\* "general_command" after a failure) and the intent is logged.
Classified(h) ==
    /\ UNCHANGED dvars
    /\ ~MicrotaskPending
    /\ handlers[h].pc = "classify"
    /\ handlers' = [handlers EXCEPT ![h].pc = "interpret"]
    /\ consecutiveErrors' = logAction(consecutiveErrors, TRUE)
    /\ lastEvent' = "classified"
    /\ UNCHANGED <<apiExists, mounted, disposed, closure, sess, recognitionRef,
                   isListening, timers, failStreak>>
    /\ handed' = Fresh(sess', handed)

\* handleRecovery, as called from a catch block after c is the counter.
\* It compares the counter the closure holds.
handleRecovery(c) ==
    IF closure.consecutiveErrors >= RecoveryThreshold
    THEN /\ timers["recovery"] < MaxTimers
         /\ sess' = Release(stop(sess, recognitionRef), 0)
         /\ recognitionRef' = 0
         /\ isListening' = FALSE
         /\ consecutiveErrors' = 0
         /\ timers' = [timers EXCEPT !["recovery"] = @ + 1]
    ELSE /\ consecutiveErrors' = c
         /\ UNCHANGED <<sess, recognitionRef, isListening, timers>>

\* The rest of handleVoiceCommand: the selected interpreter settles.
\* handled / unhandled: the value of `handled` at line 398; error: an
\* exception reached the catch of handleVoiceCommand.
Interpreted(h, outcome) ==
    /\ UNCHANGED dvars
    /\ ~MicrotaskPending
    /\ handlers[h].pc = "interpret"
    /\ handlers' = [handlers EXCEPT ![h].pc = "cont"]
    /\ CASE outcome = "handled" ->
              /\ consecutiveErrors' = logAction(consecutiveErrors, TRUE)
              /\ failStreak' = 0
              /\ UNCHANGED <<sess, recognitionRef, isListening, timers>>
         [] outcome = "unhandled" ->
              /\ consecutiveErrors < MaxErrors
              /\ consecutiveErrors' = logAction(consecutiveErrors, FALSE)
              /\ failStreak' = Bump(failStreak)
              /\ UNCHANGED <<sess, recognitionRef, isListening, timers>>
         [] outcome = "error" ->
              /\ consecutiveErrors < MaxErrors
              /\ handleRecovery(logAction(consecutiveErrors, FALSE))
              /\ failStreak' = Bump(failStreak)
    /\ lastEvent' = outcome
    /\ UNCHANGED <<apiExists, mounted, disposed, closure>>
    /\ handed' = Fresh(sess', handed)

\* The continuation of onresult after `await handleVoiceCommand`: the next
\* result of the event, or startListening() after the last one.
Continue(h) ==
    /\ UNCHANGED dvars
    /\ handlers[h].pc = "cont"
    /\ IF handlers[h].remaining > 0
       THEN /\ handlers' = [handlers EXCEPT ![h] = [pc |-> "classify", remaining |-> @.remaining - 1]]
            /\ consecutiveErrors' = logAction(logAction(consecutiveErrors, TRUE), TRUE)
            /\ lastEvent' = "next_result"
            /\ UNCHANGED <<sess, recognitionRef, isListening>>
       ELSE /\ handlers' = [handlers EXCEPT ![h] = IdleHandler]
            /\ \E ok \in BOOLEAN :
                  /\ startListening(ok)
                  /\ lastEvent' = StartEvent(ok, "resume")
    /\ UNCHANGED <<apiExists, mounted, disposed, closure, timers, failStreak>>
    /\ handed' = Fresh(sess', handed)

\* onerror of session s with error code e.
OnError(s, e) ==
    /\ UNCHANGED dvars
    /\ ~MicrotaskPending
    /\ sess[s] \in {"starting", "active", "stopping"}
    /\ consecutiveErrors < MaxErrors
    /\ consecutiveErrors' = logAction(consecutiveErrors, FALSE)
    /\ IF e # "aborted"
       THEN /\ timers["resume"] < MaxTimers
            /\ isListening' = FALSE
            /\ recognitionRef' = 0
            /\ sess' = Release([sess EXCEPT ![s] = "errored"], 0)
            /\ timers' = [timers EXCEPT !["resume"] = @ + 1]
            /\ failStreak' = Bump(failStreak)
            /\ lastEvent' = "error_other"
       ELSE /\ sess' = [sess EXCEPT ![s] = "errored"]
            /\ lastEvent' = "error_aborted"
            /\ UNCHANGED <<isListening, recognitionRef, timers, failStreak>>
    /\ UNCHANGED <<apiExists, mounted, disposed, closure, handlers>>
    /\ handed' = Fresh(sess', handed)

\* onend of session s.  The handler restarts the session the ref names only
\* if the closure's isListening is true; start() throws when the ref is null
\* or names a session that is already started.
OnEnd(s) ==
    /\ UNCHANGED dvars
    /\ ~MicrotaskPending
    /\ sess[s] \in {"active", "stopping", "errored"}
    /\ lastEvent' = IF sess[s] = "active" THEN "end_natural" ELSE "end"
    /\ LET ended == [sess EXCEPT ![s] = "ended"] IN
          IF closure.isListening
          THEN IF recognitionRef # 0 /\ ended[recognitionRef] = "ended"
               THEN /\ sess' = Release([ended EXCEPT ![recognitionRef] = "starting"], recognitionRef)
                    /\ UNCHANGED <<recognitionRef, isListening, consecutiveErrors, timers>>
               ELSE /\ consecutiveErrors < MaxErrors
                    /\ timers["resume"] < MaxTimers
                    /\ consecutiveErrors' = logAction(consecutiveErrors, FALSE)
                    /\ isListening' = FALSE
                    /\ recognitionRef' = 0
                    /\ sess' = Release(ended, 0)
                    /\ timers' = [timers EXCEPT !["resume"] = @ + 1]
          ELSE /\ sess' = Release(ended, recognitionRef)
               /\ UNCHANGED <<recognitionRef, isListening, consecutiveErrors, timers>>
    /\ UNCHANGED <<apiExists, mounted, disposed, closure, handlers, failStreak>>
    /\ handed' = Fresh(sess', handed)

\* A pending timer fires: setTimeout(startListening, ...) of onerror and
\* onend, or the delayed restart of handleRecovery.
TimerFire(k) ==
    /\ UNCHANGED dvars
    /\ ~MicrotaskPending
    /\ timers[k] > 0
    /\ timers' = [timers EXCEPT ![k] = @ - 1]
    /\ \E ok \in BOOLEAN :
          /\ startListening(ok)
          /\ lastEvent' = StartEvent(ok, IF k = "recovery" THEN "restarted" ELSE "timer")
    /\ UNCHANGED <<apiExists, mounted, disposed, closure, handlers, failStreak>>
    /\ handed' = Fresh(sess', handed)

\* The cleanup of the effect: the component is disposed.
Dispose ==
    /\ UNCHANGED dvars
    /\ ~MicrotaskPending
    /\ mounted
    /\ ~disposed
    /\ disposed' = TRUE
    /\ sess' = Release(stop(sess, recognitionRef), 0)
    /\ recognitionRef' = 0
    /\ lastEvent' = "dispose"
    /\ UNCHANGED <<apiExists, mounted, closure, isListening, consecutiveErrors,
                   timers, handlers, failStreak>>
    /\ handed' = Fresh(sess', handed)

Next ==
    \/ Mount
    \/ \E s \in Sessions : OnStart(s)
    \/ \E s \in Sessions, n \in 1..MaxResults : OnResult(s, n)
    \/ \E h \in Handlers : Classified(h)
    \/ \E h \in Handlers, o \in Outcomes : Interpreted(h, o)
    \/ \E h \in Handlers : Continue(h)
    \/ \E s \in Sessions, e \in ErrorCodes : OnError(s, e)
    \/ \E s \in Sessions : OnEnd(s)
    \/ \E k \in TimerKinds : TimerFire(k)
    \/ Dispose

Spec == Init /\ [][Next]_vars

\* The listening loop with the result lists of its sessions followed.
CaptureStart ==
    ProgramInit /\ apiExists /\ StoreInit /\ OneVariant /\ handed = [s \in Sessions |-> "no"]
CaptureSpec == CaptureStart /\ [][Next]_vars

\* The listening loop while the capture session reports no error.  No
\* timer fires: onerror arms the timers, and so do onend and
\* handleRecovery when the closure holds isListening = true or a counter
\* at the threshold, which the closure of the mounting render never does.
QuietNext ==
    \/ Mount
    \/ \E s \in Sessions : OnStart(s)
    \/ \E s \in Sessions, n \in 1..MaxResults : OnResult(s, n)
    \/ \E h \in Handlers : Classified(h)
    \/ \E h \in Handlers, o \in Outcomes : Interpreted(h, o)
    \/ \E h \in Handlers : Continue(h)
    \/ \E s \in Sessions : OnEnd(s)
    \/ Dispose

QuietSpec == Init /\ [][QuietNext]_vars

\* The program's own steps are taken when they can be: a settled promise
\* runs its continuation, a timer fires, the gateway call settles.
FairSpec ==
    /\ Spec
    /\ \A h \in Handlers : WF_vars(Classified(h))
    /\ \A h \in Handlers : WF_vars(\E o \in Outcomes : Interpreted(h, o))
    /\ \A h \in Handlers : WF_vars(Continue(h))
    /\ \A k \in TimerKinds : WF_vars(TimerFire(k))
    /\ \A s \in Sessions : WF_vars(OnStart(s))

----------------------------------------------------------------------------
\* The dispatch of one utterance: handleVoiceCommand and the interpreters.

\* Bounds of the dispatch model.
MaxListLen   == 2    \* elements of one list of a filter response
MaxDimsNamed == 2    \* filter dimensions named by one filter response
MaxUpdated   == 2    \* profile fields named by one user-info response
MaxBlank     == 1    \* blank fields of a stored profile that is not fresh

\* A string is a word in a letter casing; other JSON values are marked by
\* what they are.
Casings == {"lower", "title", "upper"}
Str(w, c) == [w |-> w, c |-> c]
IsString(v) == v.c \in Casings
toLowerCase(v) == [v EXCEPT !.c = "lower"]
Undefined == [w |-> "undefined", c |-> "undefined"]
NonString == [w |-> "5", c |-> "number"]

\* What a plain object yields for a key it does not own but inherits from
\* Object.prototype ("constructor"): a function, which is truthy.
ObjectPrototypeKeys == {"constructor"}
Inherited == [w |-> "constructor", c |-> "function"]

Max(S) == CHOOSE x \in S : \A y \in S : x >= y

DimOrder == <<"colors", "sizes", "materials", "genders", "brands", "subCategories">>
Dims == {DimOrder[i] : i \in 1..Len(DimOrder)}
FilterKeys == Dims \cup {"price"}

\* The canonical catalog values of every dimension (filterOptions of
\* @/data/products), in catalog casing.
filterOptions ==
    [colors        |-> <<Str("red", "title"), Str("blue", "title")>>,
     sizes         |-> <<Str("m", "upper"), Str("xl", "upper")>>,
     materials     |-> <<Str("cotton", "title")>>,
     genders       |-> <<Str("men", "title"), Str("women", "title")>>,
     brands        |-> <<Str("nike", "title")>>,
     subCategories |-> <<Str("mats", "title")>>]

\* colorMap[key], sizeMap[key], ...: the map built by
\* Object.fromEntries(filterOptions.<d>.map(c => [c.toLowerCase(), c])).
MapGet(d, key) ==
    LET cat  == filterOptions[d]
        hits == {i \in 1..Len(cat) : toLowerCase(cat[i]) = key}
    IN  IF hits # {} THEN cat[Max(hits)]
        ELSE IF key.w \in ObjectPrototypeKeys /\ key.c = "lower" THEN Inherited
        ELSE Undefined

\* A normalize that lower-cases what it cannot find.
normalize_LowerFallback(d, v) ==
    LET m == MapGet(d, toLowerCase(v)) IN IF m # Undefined THEN m ELSE toLowerCase(v)

\* colorMap[c.toLowerCase()] || c
normalize(d, v) ==
    LET m == MapGet(d, toLowerCase(v)) IN IF m # Undefined THEN m ELSE v

\* A field of a parsed response where a list is expected: missing, a list,
\* or a non-empty string.
AbsentField == [kind |-> "absent", vals |-> <<>>]
ListField(vs) == [kind |-> "list", vals |-> vs]
StringField == [kind |-> "string", vals |-> <<>>]
RangeField == [kind |-> "range", vals |-> <<>>]

\* A test of the field alone, without its length.
NonEmpty_NoLengthTest(f) == f.kind # "absent"

\* x && x.length > 0
NonEmpty(f) == f.kind = "string" \/ (f.kind = "list" /\ Len(f.vals) > 0)

\* x.map((c) => map[c.toLowerCase()] || c) throws a TypeError: x has no
\* map, or an element has no toLowerCase.
MapThrows(f) ==
    f.kind = "string" \/ \E i \in 1..Len(f.vals) : ~IsString(f.vals[i])

MapList(d, vs) == [i \in 1..Len(vs) |-> normalize(d, vs[i])]

Call(op, arg) == [op |-> op, arg |-> arg]

\* Gateway outcomes: the call rejects, the text is not JSON, or it parses.
GwFail == [kind |-> "fail"]
GwUnparsable == [kind |-> "unparsable"]
GwParsed(v) == [kind |-> "parsed", val |-> v]
GwText(t) == [kind |-> "text", val |-> t]

\* interpretFilterCommand: result, store calls and Gateway calls.
interpretFilterCommand(g) ==
    LET unknown == [result |-> "unknown", calls |-> <<>>, gw |-> 1] IN
    IF g.kind # "parsed" THEN unknown
    ELSE LET p == g.val
             named == {d \in Dims : NonEmpty(p.dims[d])}
         IN  IF \E d \in named : MapThrows(p.dims[d]) THEN unknown
             ELSE LET normalizedFilters ==
                          [k \in FilterKeys |->
                             IF k = "price"
                             THEN (IF p.price.kind # "absent" THEN p.price ELSE AbsentField)
                             ELSE IF k \in named THEN ListField(MapList(k, p.dims[k].vals))
                             ELSE AbsentField]
                  IN  IF \E k \in FilterKeys : normalizedFilters[k].kind # "absent"
                      THEN [result |-> "filters_updated",
                            calls |-> <<Call("updateFilters", normalizedFilters)>>,
                            gw |-> 1]
                      ELSE unknown

\* Values handed to the store as the response spells them.
normalizedValues_Raw(d, valuesToRemove) == valuesToRemove

\* Lines 1103-1105: valuesToRemove.map((val) => mappingFn(val) || val)
normalizedValues(d, valuesToRemove) == MapList(d, valuesToRemove)

\* The calls of processFilterRemoval for dimensions i.. of DimOrder, after
\* the calls acc; threw: a TypeError ended the sequence.
RECURSIVE processFilterRemoval(_, _, _)
processFilterRemoval(p, i, acc) ==
    IF i > Len(DimOrder) THEN [calls |-> acc, threw |-> FALSE]
    ELSE LET d == DimOrder[i]
             f == p.dims[d]
         IN  IF ~NonEmpty(f) THEN processFilterRemoval(p, i + 1, acc)
             ELSE IF MapThrows(f) THEN [calls |-> acc, threw |-> TRUE]
             ELSE processFilterRemoval(p, i + 1,
                     Append(acc, Call("removeFilter",
                                 [key |-> d, vals |-> normalizedValues(d, f.vals)])))

\* handleRemoveFilters: result, store calls and Gateway calls.
handleRemoveFilters(g) ==
    IF g.kind # "parsed" \/ ~g.val.isRemoveFilter
    THEN [result |-> FALSE, calls |-> <<>>, gw |-> 1, status |-> <<>>]
    ELSE LET r == processFilterRemoval(g.val, 1, <<>>) IN
         IF r.threw THEN [result |-> FALSE, calls |-> r.calls, gw |-> 1, status |-> <<>>]
         ELSE LET all == IF g.val.price = TRUE
                         THEN Append(r.calls, Call("removeFilter", [key |-> "price", vals |-> <<>>]))
                         ELSE r.calls
              IN  [result |-> Len(all) > 0, calls |-> all, gw |-> 1,
                   status |-> IF Len(all) > 0 THEN <<"action">> ELSE <<>>]

\* The filter responses the Gateway is made to return.
RawKinds == {"canon", "foreign", "inherited"}

RawOf(d, k) ==
    CASE k = "canon"     -> toLowerCase(filterOptions[d][1])
      [] k = "foreign"   -> Str("teal", "upper")
      [] k = "inherited" -> Str("constructor", "title")

FieldShapes ==
    {[kind |-> "string", ks |-> <<>>]}
       \cup {[kind |-> "list", ks |-> l] : l \in UNION {[1..n -> RawKinds] : n \in 0..MaxListLen}}

FieldOf(d, sh) ==
    IF sh.kind = "string" THEN StringField
    ELSE ListField([i \in 1..Len(sh.ks) |-> RawOf(d, sh.ks[i])])

\* The dimensions the responses name: the first two and the last one the
\* code processes.
NamedDims == {"colors", "sizes", "subCategories"}

DimFields ==
    UNION {{[d \in Dims |-> IF d \in S THEN FieldOf(d, f[d]) ELSE AbsentField] :
               f \in [S -> FieldShapes]} :
           S \in {T \in SUBSET NamedDims : Cardinality(T) <= MaxDimsNamed}}

FilterResponses ==
    {[dims |-> ds, price |-> pr] : ds \in DimFields, pr \in {AbsentField, RangeField}}

RemovalResponses ==
    {[isRemoveFilter |-> b, dims |-> ds, price |-> pr] :
        b \in BOOLEAN, ds \in DimFields, pr \in BOOLEAN}

\* Text is a sequence of characters.
clearFilterPhrases ==
    <<<<"c", "l", "e", "a", "r", " ", "f", "i", "l", "t", "e", "r">>,
      <<"r", "e", "s", "e", "t", " ", "f", "i", "l", "t", "e", "r">>,
      <<"r", "e", "m", "o", "v", "e", " ", "f", "i", "l", "t", "e", "r">>,
      <<"c", "l", "e", "a", "r", " ", "a", "l", "l", " ", "f", "i", "l", "t", "e", "r">>,
      <<"r", "e", "s", "e", "t", " ", "a", "l", "l", " ", "f", "i", "l", "t", "e", "r">>,
      <<"r", "e", "m", "o", "v", "e", " ", "a", "l", "l", " ", "f", "i", "l", "t", "e", "r">>,
      <<"c", "l", "e", "a", "r", " ", "t", "h", "e", " ", "f", "i", "l", "t", "e", "r">>,
      <<"s", "t", "a", "r", "t", " ", "o", "v", "e", "r">>>>

\* The utterances dispatched.
Utterances ==
    <<<<"c", "l", "e", "a", "r", " ", "a", "l", "l", " ", "f", "i", "l", "t", "e", "r", "s">>,
      <<"s", "h", "o", "w", " ", "m", "e", " ", "y", "o", "g", "a", " ", "m", "a", "t", "s">>,
      <<"p", "l", "e", "a", "s", "e", " ", "s", "t", "a", "r", "t", " ", "o", "v", "e", "r">>,
      <<"m", "y", " ", "c", "a", "r", "d", " ", "i", "s", " ", "4", "1", "1", "1">>>>

\* transcript.includes(phrase)
includes(t, ph) ==
    \E i \in 0..(Len(t) - Len(ph)) : SubSeq(t, i + 1, i + Len(ph)) = ph

\* The page state and the stored profile the interpreters query.
Controls == {"present", "absent"}                    \* document.querySelector finds it or not
Pages == {"/payment", "/product/p1", "/product/zz", "/cart"}
ProductPages == {"/product/p1", "/product/zz"}       \* currentPath.startsWith("/product/")
KnownProductPages == {"/product/p1"}                  \* products.find((p) => p.id === productId)
ProductSizes == <<Str("m", "upper"), Str("l", "upper")>>

InfoFields == <<"name", "email", "address", "phone", "cardName", "cardNumber", "expiryDate", "cvv">>
InfoLabels == <<"name", "email", "address", "phone", "card name", "card number",
                "card expiry date", "CVV">>
InfoFieldSet == {InfoFields[i] : i \in 1..Len(InfoFields)}
RequiredFields == {"cardNumber", "expiryDate", "cvv", "name", "email", "address"}
Missing == "<undefined>"
Truthy(v) == v \notin {"", Missing}
\* The stored profiles: a fresh one, and those with few fields left blank.
Blank(info) == {f \in InfoFieldSet : info[f] = ""}
Profiles ==
    {info \in [InfoFieldSet -> {"", "old"}] :
        Cardinality(Blank(info)) <= MaxBlank \/ Blank(info) = InfoFieldSet}
\* A test of the card fields alone.
hasRequiredInfo_CardOnly(info) == \A f \in {"cardNumber", "expiryDate", "cvv"} : Truthy(info[f])

hasRequiredInfo(info) == \A f \in RequiredFields : Truthy(info[f])

Res(result, cs, gw, rd) ==
    [result |-> result, calls |-> cs, gw |-> gw, reads |-> rd, status |-> <<>>, log |-> <<>>]

\* setLastAction(...) inside an interpreter or a case of the dispatcher.
Said(r) == [r EXCEPT !.status = Append(@, "action")]
Logged(r, entries) == [r EXCEPT !.log = @ \o entries]

\* classifyPrimaryIntent
classifyPrimaryIntent(g) == IF g.kind = "text" THEN g.val ELSE "general_command"

\* handleNavigationCommand
handleNavigationCommand(g) ==
    IF g.kind # "parsed" THEN Res(FALSE, <<>>, 1, NoReads)
    ELSE IF g.val.action = "back" THEN Said(Res(TRUE, <<Call("historyBack", "")>>, 1, NoReads))
    ELSE IF g.val.action = "home" THEN Said(Res(TRUE, <<Call("navigate", "/")>>, 1, NoReads))
    ELSE Res(FALSE, <<>>, 1, NoReads)

\* The submit or the navigation of a completed order.
SubmitOrConfirm(submit) ==
    IF submit = "present" THEN <<Call("click", "submit")>> ELSE <<Call("navigate", "/confirmation")>>

\* handleOrderCompletion
handleOrderCompletion(g, page, info, submit) ==
    IF g.kind = "text" /\ toLowerCase(g.val) = Str("yes", "lower")
    THEN IF page = "/payment"
         THEN IF hasRequiredInfo(info)
              THEN Said(Res(TRUE, SubmitOrConfirm(submit), 1,
                            [page |-> page, info |-> info, submit |-> submit]))
              ELSE Said(Res(TRUE, <<Call("navigate", "/payment")>>, 1,
                            [page |-> page, info |-> info, submit |-> "unread"]))
         ELSE Said(Res(TRUE, <<Call("navigate", "/payment")>>, 1,
                       [page |-> page, info |-> NoInfo, submit |-> "unread"]))
    ELSE Res(FALSE, <<>>, 1, NoReads)

\* The `checkout` case of the general command switch.
checkoutAction(page, info, submit) ==
    IF page = "/payment"
    THEN IF hasRequiredInfo(info)
         THEN Said(Res(TRUE, SubmitOrConfirm(submit), 0,
                       [page |-> page, info |-> info, submit |-> submit]))
         ELSE Said(Res(TRUE, <<>>, 0, [page |-> page, info |-> info, submit |-> "unread"]))
    ELSE Said(Res(TRUE, <<Call("navigate", "/payment")>>, 0,
                  [page |-> page, info |-> NoInfo, submit |-> "unread"]))

\* The fields a user-info response names, in the order the code tests them.
RECURSIVE updatedFieldsFrom(_, _)
updatedFieldsFrom(r, i) ==
    IF i > Len(InfoFields) THEN <<>>
    ELSE IF Truthy(r[InfoFields[i]])
         THEN <<InfoLabels[i]>> \o updatedFieldsFrom(r, i + 1)
         ELSE updatedFieldsFrom(r, i + 1)

\* A merge that starts from an empty profile instead of the stored one.
mergeInfo_FromEmpty(currentInfo, r) ==
    [f \in InfoFieldSet |-> IF Truthy(r[f]) THEN r[f] ELSE ""]

\* updatedInfo: { ...currentInfo } with the named fields overwritten.
mergeInfo(currentInfo, r) ==
    [f \in InfoFieldSet |-> IF Truthy(r[f]) THEN r[f] ELSE currentInfo[f]]

\* A console message: its text, the field labels it lists, and the card
\* fields it prints (NotPrinted for a field that is not in the message).
NotPrinted == "<not printed>"

\* A log of the updated data as it is.
updatedDataLog_Raw(updatedInfo) ==
    [msg |-> "Updated data:", labels |-> <<>>,
     cardName |-> updatedInfo["cardName"],
     cardNumber |-> updatedInfo["cardNumber"],
     expiryDate |-> updatedInfo["expiryDate"],
     cvv |-> updatedInfo["cvv"]]

\* console.log("Updated data:", {...}) at lines 507-512.
updatedDataLog(updatedInfo) ==
    [msg |-> "Updated data:", labels |-> <<>>,
     cardName |-> updatedInfo["cardName"],
     cardNumber |-> IF Truthy(updatedInfo["cardNumber"]) THEN "****" ELSE "null",
     expiryDate |-> updatedInfo["expiryDate"],
     cvv |-> IF Truthy(updatedInfo["cvv"]) THEN "***" ELSE "null"]

\* console.log("User info updated:", updatedFields) at line 506.
updatedFieldsLog(updatedFields) ==
    [msg |-> "User info updated:", labels |-> updatedFields,
     cardName |-> NotPrinted, cardNumber |-> NotPrinted, expiryDate |-> NotPrinted,
     cvv |-> NotPrinted]

\* handleUserInfoUpdate
handleUserInfoUpdate(g, currentInfo) ==
    IF g.kind # "parsed" \/ ~g.val.isUserInfoUpdate THEN Res(FALSE, <<>>, 1, NoReads)
    ELSE LET updatedFields == updatedFieldsFrom(g.val.fields, 1)
             rd == [page |-> "unread", info |-> currentInfo, submit |-> "unread"]
         IN  IF Len(updatedFields) > 0
             THEN Logged(Said(Res(TRUE,
                      <<Call("updateUserInfo", mergeInfo(currentInfo, g.val.fields)),
                        Call("userInfoUpdated", updatedFields)>>, 1, rd)),
                      <<updatedFieldsLog(updatedFields),
                        updatedDataLog(mergeInfo(currentInfo, g.val.fields))>>)
             ELSE Res(FALSE, <<>>, 1, rd)

\* handleCategoryNavigation
CategoryRoute(c) ==
    CASE c = "gym" -> "/products/gym"
      [] c = "yoga" -> "/products/yoga"
      [] c = "running" -> "/products/jogging"

handleCategoryNavigation(g) ==
    IF g.kind = "text" /\ toLowerCase(g.val) \in {Str(c, "lower") : c \in {"gym", "yoga", "running"}}
    THEN Res(TRUE, <<Call("navigate", CategoryRoute(g.val.w))>>, 1, NoReads)
    ELSE Res(FALSE, <<>>, 1, NoReads)

\* handleCartNavigation
handleCartNavigation(g) ==
    IF g.kind = "text" /\ toLowerCase(g.val) = Str("yes", "lower")
    THEN Res(TRUE, <<Call("navigate", "/cart")>>, 1, NoReads)
    ELSE Res(FALSE, <<>>, 1, NoReads)

\* A precondition tested only after the Gateway call.
offProductPage_AfterGateway(rd) == Res(FALSE, <<>>, 1, rd)

\* The early returns of handleProductActions: nothing was called yet.
offProductPage(rd) == Res(FALSE, <<>>, 0, rd)

\* A JSON value of the response where a quantity is expected: missing, a
\* number or a string; text: the characters ToString gives it.
NoQuantity == [kind |-> "absent", text |-> <<>>]
NumberQuantity(t) == [kind |-> "number", text |-> t]
StringQuantity(t) == [kind |-> "string", text |-> t]

\* parsedAction.quantity as a condition: a number other than 0, or a
\* non-empty string.
TruthyQuantity(q) ==
    \/ q.kind = "number" /\ q.text # <<"0">>
    \/ q.kind = "string" /\ q.text # <<>>

\* A number: NaN, or an integer.
NaN == [nan |-> TRUE, n |-> 0]
Number(n) == [nan |-> FALSE, n |-> n]
isNaN(x) == x.nan

DecimalDigits == <<"0", "1", "2", "3", "4", "5", "6", "7", "8", "9">>
IsDigit(c) == \E i \in DOMAIN DecimalDigits : DecimalDigits[i] = c
DigitValue(c) == (CHOOSE i \in DOMAIN DecimalDigits : DecimalDigits[i] = c) - 1
WhiteSpace == {" ", "\n", "\t"}

\* The value of the longest prefix of digits of t after the value acc of
\* the digits before it.
RECURSIVE digitsValue(_, _)
digitsValue(t, acc) ==
    IF t = <<>> \/ ~IsDigit(t[1]) THEN acc
    ELSE digitsValue(Tail(t), 10 * acc + DigitValue(t[1]))

\* parseInt(text) without a radix, for a text that has no 0x prefix:
\* leading white space is skipped, a sign is read, then the longest prefix
\* of decimal digits; NaN when there is no digit.
RECURSIVE parseInt(_)
parseInt(t) ==
    IF t # <<>> /\ t[1] \in WhiteSpace THEN parseInt(Tail(t))
    ELSE LET signed == t # <<>> /\ t[1] \in {"-", "+"}
             body   == IF signed THEN Tail(t) ELSE t
         IN  IF body = <<>> \/ ~IsDigit(body[1]) THEN NaN
             ELSE IF t[1] = "-" THEN Number(0 - digitsValue(body, 0))
             ELSE Number(digitsValue(body, 0))

\* A find that returns the size as the response spells it.
matchedSize_AsSpoken(sizes, size) ==
    IF \E i \in 1..Len(sizes) : toLowerCase(sizes[i]) = toLowerCase(size)
    THEN size
    ELSE Undefined

\* product.sizes.find((size) => size.toLowerCase() === parsedAction.size.toLowerCase())
matchedSize(sizes, size) ==
    IF \E i \in 1..Len(sizes) : toLowerCase(sizes[i]) = toLowerCase(size)
    THEN sizes[Min({j \in 1..Len(sizes) : toLowerCase(sizes[j]) = toLowerCase(size)})]
    ELSE Undefined

\* handleProductActions.
handleProductActions(g, page, button) ==
    LET rd == [page |-> page, info |-> NoInfo, submit |-> "unread"] IN
    IF page \notin ProductPages \/ page \notin KnownProductPages THEN offProductPage(rd)
    ELSE IF g.kind # "parsed" THEN Res(FALSE, <<>>, 1, rd)
    ELSE LET a == g.val IN
         IF a.action = "none" THEN Res(FALSE, <<>>, 1, rd)
         ELSE IF a.action = "size" /\ a.size # Undefined /\ ~IsString(a.size)
              THEN Res(FALSE, <<>>, 1, rd)
         ELSE IF a.action = "size" /\ a.size # Undefined
                 /\ matchedSize(ProductSizes, a.size) # Undefined
              THEN Res(TRUE, <<Call("setSelectedSize", matchedSize(ProductSizes, a.size))>>, 1, rd)
         ELSE IF a.action = "quantity" /\ TruthyQuantity(a.quantity)
                 /\ ~isNaN(parseInt(a.quantity.text)) /\ parseInt(a.quantity.text).n > 0
              THEN Res(TRUE, <<Call("setQuantity", parseInt(a.quantity.text).n)>>, 1, rd)
         ELSE IF a.action = "addToCart"
              THEN Res(TRUE,
                       IF button = "present" THEN <<Call("click", "add-to-cart")>> ELSE <<>>, 1,
                       [page |-> page, info |-> NoInfo, submit |-> button])
         ELSE Res(TRUE, <<>>, 1, rd)

ProductActionResponses ==
    {[action |-> a, size |-> sz, quantity |-> q] :
        a \in {"none", "size", "quantity", "addToCart", "other"},
        sz \in {Undefined, Str("m", "lower"), Str("xxl", "upper"), NonString},
        q \in {NoQuantity, NumberQuantity(<<"0">>), NumberQuantity(<<"1", "2">>),
               NumberQuantity(<<"2", ".", "5">>), NumberQuantity(<<"-", "3">>),
               StringQuantity(<<" ", "2", " ", "o", "f">>), StringQuantity(<<"0">>),
               StringQuantity(<<"t", "w", "o">>)}}

\* The catalog the product interpreters query (products of @/data/products):
\* ids and names, the names as characters in catalog casing.
products ==
    <<[id |-> "p0", name |-> Str(<<"y", "o", "g", "a", " ", "m", "a", "t", " ", "b", "a", "g">>, "title")],
      [id |-> "p1", name |-> Str(<<"y", "o", "g", "a", " ", "m", "a", "t">>, "title")],
      [id |-> "p2", name |-> Str(<<"r", "u", "n", "n", "i", "n", "g", " ", "s", "h", "o", "e", "s">>, "title")]>>

\* `/product/${id}`
ProductRoute(id) ==
    CASE id = "p0" -> "/product/p0"
      [] id = "p1" -> "/product/p1"
      [] id = "p2" -> "/product/p2"

\* products.find(...): the index of the first entry the predicate holds
\* for, 0 for undefined; hit[i]: the predicate holds for products[i].
find(hit) ==
    IF \E i \in DOMAIN hit : hit[i]
    THEN CHOOSE i \in DOMAIN hit : hit[i] /\ \A j \in 1..(i - 1) : ~hit[j]
    ELSE 0

\* String.prototype.trim on the characters of a text.
Blanks == {" ", "\n"}
RECURSIVE trim(_)
trim(t) ==
    IF t = <<>> THEN t
    ELSE IF t[1] \in Blanks THEN trim(Tail(t))
    ELSE IF t[Len(t)] \in Blanks THEN trim(SubSeq(t, 1, Len(t) - 1))
    ELSE t

\* productName.split(" ")
RECURSIVE split(_)
split(t) ==
    IF \E i \in DOMAIN t : t[i] = " "
    THEN LET i == CHOOSE k \in DOMAIN t : t[k] = " " /\ \A j \in 1..(k - 1) : t[j] # " "
         IN  <<SubSeq(t, 1, i - 1)>> \o split(SubSeq(t, i + 1, Len(t)))
    ELSE <<t>>

\* Lines 756-764: the first word, in the order of the response, that some
\* product name includes decides; 0 when no word does.
RECURSIVE keywordMatch(_, _)
keywordMatch(words, k) ==
    IF k > Len(words) THEN 0
    ELSE LET m == find([i \in DOMAIN products |->
                          includes(toLowerCase(products[i].name).w, words[k])])
         IN  IF m # 0 THEN m ELSE keywordMatch(words, k + 1)

\* Lines 738-764: matchedProduct for the lower-cased response productName.
matchedProduct(productName) ==
    LET exact == find([i \in DOMAIN products |-> toLowerCase(products[i].name) = productName])
        partial == find([i \in DOMAIN products |->
                           \/ includes(toLowerCase(products[i].name).w, productName.w)
                           \/ includes(productName.w, toLowerCase(products[i].name).w)])
        words == SelectSeq(split(productName.w), LAMBDA w : Len(w) > 3)
    IN  IF exact # 0 THEN exact
        ELSE IF partial # 0 THEN partial
        ELSE keywordMatch(words, 1)

\* handleProductDetailNavigation
handleProductDetailNavigation(g) ==
    IF g.kind # "text" THEN Res(FALSE, <<>>, 1, NoReads)
    ELSE LET response == [g.val EXCEPT !.w = trim(@)]
             productName == toLowerCase(response)
         IN  IF productName # Str(<<"n", "o", "n", "e">>, "lower") /\ matchedProduct(productName) # 0
             THEN Res(TRUE, <<Call("navigate",
                              ProductRoute(products[matchedProduct(productName)].id))>>,
                      1, NoReads)
             ELSE Res(FALSE, <<>>, 1, NoReads)

\* An interpretCommand that asks the Gateway first and scans the phrases
\* only when the call fails.
interpretCommand_GatewayFirst(t, g) ==
    IF g.kind = "text" THEN [result |-> g.val, gw |-> 1]
    ELSE IF \E i \in 1..Len(clearFilterPhrases) : includes(t, clearFilterPhrases[i])
    THEN [result |-> "clearFilters", gw |-> 1]
    ELSE [result |-> "unknown", gw |-> 1]

\* interpretCommand: the phrase scan, then the function-selection call.
interpretCommand(t, g) ==
    IF \E i \in 1..Len(clearFilterPhrases) : includes(t, clearFilterPhrases[i])
    THEN [result |-> "clearFilters", gw |-> 0]
    ELSE IF g.kind = "text" THEN [result |-> g.val, gw |-> 1]
    ELSE [result |-> "unknown", gw |-> 1]

\* The names of the registry availableFunctions.
availableFunctions ==
    {"showGymClothes", "showYogaEquipment", "navigateToCategory", "goToCart", "checkout",
     "showRunningGear", "applyFilters", "clearFilters"}

\* The names of availableFunctions, and a text that is none of them.
FunctionTexts == availableFunctions \cup {"none"}

\* The switch on the general action.
generalAction(action, page, info, submit) ==
    CASE action = "showGymClothes"    -> Said(Res(TRUE, <<Call("navigate", "/products/gym")>>, 0, NoReads))
      [] action = "showYogaEquipment" -> Said(Res(TRUE, <<Call("navigate", "/products/yoga")>>, 0, NoReads))
      [] action = "goToCart"          -> Said(Res(TRUE, <<Call("navigate", "/cart")>>, 0, NoReads))
      [] action = "checkout"          -> checkoutAction(page, info, submit)
      [] action = "showRunningGear"   -> Said(Res(TRUE, <<Call("navigate", "/products/jogging")>>, 0, NoReads))
      [] action = "clearFilters"      -> Said(Res(TRUE, <<Call("clearFilters", "")>>, 0, NoReads))
      [] OTHER                        -> Res(FALSE, <<>>, 0, NoReads)

\* The category tags of the switch of handleVoiceCommand, and a text that
\* is none of them.
Categories ==
    {"navigation", "order_completion", "user_info", "cart", "product_action",
     "product_navigation", "remove_filter", "category_navigation", "apply_filter",
     "clear_filters", "general_command"}
IntentTexts == Categories \cup {"Navigation."}

UserInfoResponses ==
    UNION {{[isUserInfoUpdate |-> b,
             fields |-> [f \in InfoFieldSet |-> IF f \in S THEN v[f] ELSE Missing]] :
               v \in [S -> {"", "new"}], b \in BOOLEAN} :
           S \in {T \in SUBSET InfoFieldSet : Cardinality(T) <= MaxUpdated}}

\* The text responses the Gateway is made to return.
YesNoTexts == {Str("yes", "title"), Str("yes", "lower"), Str("no", "lower")}
CategoryTexts == {Str("gym", "lower"), Str("yoga", "title"), Str("running", "upper"),
                  Str("none", "lower")}
ProductTexts ==
    {Str(<<"n", "o", "n", "e">>, "title"),
     Str(<<"y", "o", "g", "a", " ", "m", "a", "t">>, "upper"),
     Str(<<"y", "o", "g", "a", " ", "m", "a", "t", "\n">>, "title"),
     Str(<<"m", "a", "t">>, "lower"),
     Str(<<"r", "e", "d", " ", "r", "u", "n", "n", "i", "n", "g", " ", "s", "h", "o", "e", "s">>, "lower"),
     Str(<<"s", "h", "o", "e", "s", " ", "y", "o", "g", "a">>, "lower"),
     Str(<<"c", "o", "o", "l", " ", "s", "h", "o", "e">>, "lower"),
     Str(<<"b", "i", "g", " ", "b", "e", "l", "l">>, "lower"),
     Str(<<"r", "e", "d", " ", "m", "a", "t">>, "lower")}
NavigationResponses == {[action |-> a] : a \in {"back", "home", "none", "other"}}

Failing(S) == {GwFail, GwUnparsable} \cup {GwParsed(v) : v \in S}
FailingText(S) == {GwFail} \cup {GwText(t) : t \in S}

----------------------------------------------------------------------------
\* handleVoiceCommand, one dispatch at a time.

\* Lines 217-221: the command is received and logged.
\* A template literal with the command in it: the literal parts are kept
\* whole, the command is its characters.
Quoting(left, command, right) == <<left>> \o command \o <<right>>

\* A text passed to logAction (to: "actionLog") or to setLastAction (to:
\* "lastAction").
Entry(to, text) == [to |-> to, text |-> text]

\* Lines 218 and 221.
processingEntries(command) ==
    <<Entry("actionLog", Quoting("Processing command: \"", command, "\"")),
      Entry("lastAction", Quoting("Processing: \"", command, "\""))>>

\* Line 230.
intentEntries(primaryIntent) ==
    <<Entry("actionLog", <<"Identified primary intent: ", primaryIntent>>)>>

\* Lines 398-407.
outcomeEntries(command, primaryIntent, h) ==
    IF ~h
    THEN <<Entry("lastAction", Quoting("Command not recognized: \"", command, "\"")),
           Entry("actionLog", Quoting("No handler processed: \"", command, "\""))>>
    ELSE <<Entry("actionLog",
                 Quoting("Successfully handled \"", command, "\" (") \o <<primaryIntent, ")">>)>>

DBegin(u) ==
    /\ dpc \in {"idle", "done"}
    /\ dpc' = "classify"
    /\ utt' = u
    /\ intent' = ""
    /\ gwCalls' = 0
    /\ pathways' = <<>>
    /\ calls' = <<>>
    /\ dlog' = <<TRUE>>
    /\ resp' = NoResp
    /\ reads' = NoReads
    /\ handled' = "pending"
    /\ before' = consecutiveErrors
    /\ status' = <<"processing">>
    /\ diag' = <<>>
    /\ written' = processingEntries(Utterances[u])
    /\ consecutiveErrors' = logAction(consecutiveErrors, TRUE)
    /\ UNCHANGED loopRest

\* Lines 228-230: the primary intent is classified and logged.
DClassify(g) ==
    /\ dpc = "classify"
    /\ dpc' = "route"
    /\ intent' = classifyPrimaryIntent(g)
    /\ gwCalls' = gwCalls + 1
    /\ dlog' = Append(dlog, TRUE)
    /\ written' = written \o intentEntries(classifyPrimaryIntent(g))
    /\ consecutiveErrors' = logAction(consecutiveErrors, TRUE)
    /\ UNCHANGED <<utt, pathways, calls, resp, reads, handled, before, status, diag, loopRest>>

\* setLastAction in a case of the switch, when the handler returned true.
IfHandled(r) == IF r.result THEN Said(r) ELSE r

\* Lines 397-407: the outcome of the pathways pw is logged; st, lg: the
\* statuses set and the console output written since the dispatch chose
\* its case.
Outcome(pw, h, cs, gw, rsp, rds, st, lg) ==
    /\ dpc' = "done"
    /\ pathways' = pathways \o pw
    /\ handled' = IF h THEN "yes" ELSE "no"
    /\ calls' = calls \o cs
    /\ gwCalls' = gwCalls + gw
    /\ resp' = rsp
    /\ reads' = rds
    /\ dlog' = Append(dlog, h)
    /\ status' = status \o st \o (IF h THEN <<>> ELSE <<"not_recognized">>)
    /\ diag' = diag \o lg
    /\ written' = written \o outcomeEntries(Utterances[utt], intent, h)
    /\ consecutiveErrors' = logAction(consecutiveErrors, h)
    /\ UNCHANGED <<utt, intent, before, loopRest>>

RouteNavigation ==
    /\ dpc = "route" /\ intent = "navigation"
    /\ \E g \in Failing(NavigationResponses) :
          LET r == handleNavigationCommand(g)
          IN  Outcome(<<"handleNavigationCommand">>, r.result, r.calls, r.gw, g, r.reads,
                      r.status, r.log)

RouteOrderCompletion ==
    /\ dpc = "route" /\ intent = "order_completion"
    /\ \E g \in FailingText(YesNoTexts), page \in Pages, info \in Profiles, submit \in Controls :
          LET r == handleOrderCompletion(g, page, info, submit)
          IN  Outcome(<<"handleOrderCompletion">>, r.result, r.calls, r.gw, g, r.reads,
                      r.status, r.log)

RouteUserInfo ==
    /\ dpc = "route" /\ intent = "user_info"
    /\ \E g \in Failing(UserInfoResponses), info \in Profiles :
          LET r == handleUserInfoUpdate(g, info)
          IN  Outcome(<<"handleUserInfoUpdate">>, r.result, r.calls, r.gw, g, r.reads,
                      r.status, r.log)

RouteCart ==
    /\ dpc = "route" /\ intent = "cart"
    /\ \E g \in FailingText(YesNoTexts) :
          LET r == IfHandled(handleCartNavigation(g))
          IN  Outcome(<<"handleCartNavigation">>, r.result, r.calls, r.gw, g, r.reads,
                      r.status, r.log)

RouteProductAction ==
    /\ dpc = "route" /\ intent = "product_action"
    /\ \E g \in Failing(ProductActionResponses), page \in Pages, button \in Controls :
          LET r == IfHandled(handleProductActions(g, page, button))
          IN  Outcome(<<"handleProductActions">>, r.result, r.calls, r.gw,
                      IF r.gw = 0 THEN NoResp ELSE g, r.reads, r.status, r.log)

RouteProductNavigation ==
    /\ dpc = "route" /\ intent = "product_navigation"
    /\ \E g \in FailingText(ProductTexts) :
          LET r == IfHandled(handleProductDetailNavigation(g))
          IN  Outcome(<<"handleProductDetailNavigation">>, r.result, r.calls, r.gw, g, r.reads,
                      r.status, r.log)

RouteRemoveFilter ==
    /\ dpc = "route" /\ intent = "remove_filter"
    /\ \E g \in Failing(RemovalResponses) :
          LET r == handleRemoveFilters(g)
          IN  Outcome(<<"handleRemoveFilters">>, r.result, r.calls, r.gw, g, NoReads,
                      r.status, <<>>)

\* Lines 280-285: a recognized category navigates and leaves the filter
\* interpreter to run; any other response ends the dispatch unhandled.
RouteCategoryNavigation ==
    /\ dpc = "route" /\ intent = "category_navigation"
    /\ \E g \in FailingText(CategoryTexts) :
          LET r == handleCategoryNavigation(g)
          IN  IF r.result
              THEN /\ dpc' = "chain"
                   /\ pathways' = Append(pathways, "handleCategoryNavigation")
                   /\ calls' = calls \o r.calls
                   /\ gwCalls' = gwCalls + r.gw
                   /\ resp' = g
                   /\ status' = Append(status, "action")
                   /\ UNCHANGED <<utt, intent, dlog, reads, handled, before, diag, written,
                                  consecutiveErrors, loopRest>>
              ELSE Outcome(<<"handleCategoryNavigation">>, FALSE, r.calls, r.gw, g, r.reads,
                           <<>>, <<>>)

\* Lines 289-296: the filter interpreter after a successful navigation.
ChainFilter ==
    /\ dpc = "chain"
    /\ \E g \in Failing(FilterResponses) :
          LET r == interpretFilterCommand(g)
          IN  Outcome(<<"interpretFilterCommand">>, TRUE, r.calls, r.gw, g, NoReads,
                      IF r.result = "filters_updated" THEN <<"action">> ELSE <<>>, <<>>)

RouteApplyFilter ==
    /\ dpc = "route" /\ intent = "apply_filter"
    /\ \E g \in Failing(FilterResponses) :
          LET r == interpretFilterCommand(g)
          IN  Outcome(<<"interpretFilterCommand">>, r.result = "filters_updated",
                      r.calls, r.gw, g, NoReads,
                      IF r.result = "filters_updated" THEN <<"action">> ELSE <<>>, <<>>)

RouteClearFilters ==
    /\ dpc = "route" /\ intent = "clear_filters"
    /\ Outcome(<<"clearFilters">>, TRUE, <<Call("clearFilters", "")>>, 0, NoResp, NoReads,
               <<"action">>, <<>>)

RouteGeneralCommand ==
    /\ dpc = "route" /\ intent = "general_command"
    /\ \E g \in FailingText(FunctionTexts), page \in Pages, info \in Profiles, submit \in Controls :
          LET a == interpretCommand(Utterances[utt], g)
              r == generalAction(a.result, page, info, submit)
          IN  Outcome(<<"interpretCommand">>, r.result, r.calls, a.gw,
                      IF a.gw = 0 THEN NoResp ELSE g, r.reads, r.status, r.log)

\* The switch has no default case.
RouteNoCase ==
    /\ dpc = "route" /\ intent \notin Categories
    /\ Outcome(<<>>, FALSE, <<>>, 0, NoResp, NoReads, <<>>, <<>>)

DNext ==
    \/ \E u \in 1..Len(Utterances) : DBegin(u)
    \/ \E g \in FailingText(IntentTexts) : DClassify(g)
    \/ RouteNavigation
    \/ RouteOrderCompletion
    \/ RouteUserInfo
    \/ RouteCart
    \/ RouteProductAction
    \/ RouteProductNavigation
    \/ RouteRemoveFilter
    \/ RouteCategoryNavigation
    \/ ChainFilter
    \/ RouteApplyFilter
    \/ RouteClearFilters
    \/ RouteGeneralCommand
    \/ RouteNoCase

\* The dispatcher alone, on a page whose recognition API exists.
DispatchStart == Init /\ apiExists
DispatchSpec == DispatchStart /\ [][DNext]_vars

-----------------------------------------------------------------------------
\* logAction and the ActionLog it fills (the listening loop and the
\* dispatcher above follow the failure counter only).

MaxLogged == 22      \* calls of logAction
MaxFailed == 1       \* calls of logAction that log a failure
MaxClock  == 1       \* milliseconds that pass between the first and the last call

\* prevLog.slice(0, 19): the entries kept from the previous log.
KeptEntries == 19

\* Array.prototype.slice(from, to) for 0 <= from <= to.
slice(l, from, to) == SubSeq(l, from + 1, IF to < Len(l) THEN to ELSE Len(l))

\* A log that keeps every entry.
newLog_KeepAll(prevLog, entry) == <<entry>> \o prevLog

\* Lines 102-106: [{ timestamp, action, success }, ...prevLog.slice(0, 19)]
newLog(prevLog, entry) == <<entry>> \o slice(prevLog, 0, KeptEntries)

\* logAction(action, success), tick milliseconds after the call before it;
\* the text of the k-th call is k.
LogAction(success, tick) ==
    /\ Len(logHistory) < MaxLogged
    /\ ~success => Cardinality({i \in DOMAIN logHistory : ~logHistory[i].success}) < MaxFailed
    /\ clock + tick <= MaxClock
    /\ LET entry == [timestamp |-> clock + tick, action |-> Len(logHistory) + 1,
                     success |-> success]
       IN  /\ actionLog' = newLog(actionLog, entry)
           /\ logHistory' = <<entry>> \o logHistory
    /\ clock' = clock + tick
    /\ consecutiveErrors' = logAction(consecutiveErrors, success)
    /\ UNCHANGED qvars

LogNext == \E success \in BOOLEAN, tick \in {0, 1} : LogAction(success, tick)

LogStart == ProgramInit /\ apiExists /\ StoreInit /\ Untracked /\ OneVariant
LogSpec == LogStart /\ [][LogNext]_vars

-----------------------------------------------------------------------------
\* The filter store behind updateFilters, removeFilter and clearFilters
\* (useFilters of @/context/FilterContext), by its interface: a merge that
\* is a list union per dimension, a removal of values from a dimension, a
\* removal of the price range, and a clearing of everything.

MaxSelected == 1     \* values a dimension holds before the application

\* a followed by the values of b it does not hold yet.
RECURSIVE listUnion(_, _)
listUnion(a, b) ==
    IF b = <<>> THEN a
    ELSE IF \E i \in DOMAIN a : a[i] = b[1] THEN listUnion(a, Tail(b))
    ELSE listUnion(Append(a, b[1]), Tail(b))

updateFilters(f, partial) ==
    [dims  |-> [d \in Dims |-> IF partial[d].kind = "list"
                               THEN listUnion(f.dims[d], partial[d].vals)
                               ELSE f.dims[d]],
     price |-> IF partial["price"].kind # "absent" THEN partial["price"] ELSE f.price]

removeFilter(f, key, vals) ==
    IF key = "price" THEN [f EXCEPT !.price = AbsentField]
    ELSE [f EXCEPT !.dims[key] = SelectSeq(@, LAMBDA x : \A i \in DOMAIN vals : vals[i] # x)]

clearFilters(f) == [dims |-> [d \in Dims |-> <<>>], price |-> AbsentField]

\* The store after the calls cs an interpreter made on it.
RECURSIVE storeAfter(_, _)
storeAfter(f, cs) ==
    IF cs = <<>> THEN f
    ELSE LET c == cs[1]
             g == CASE c.op = "updateFilters" -> updateFilters(f, c.arg)
                    [] c.op = "removeFilter"  -> removeFilter(f, c.arg.key, c.arg.vals)
                    [] c.op = "clearFilters"  -> clearFilters(f)
                    [] OTHER                  -> f
         IN  storeAfter(g, Tail(cs))

\* The selections the store starts from: every named dimension holds at
\* most MaxSelected values, canonical ones or one the catalog does not know.
Selectable(d) == {filterOptions[d][i] : i \in DOMAIN filterOptions[d]} \cup {Str("teal", "upper")}
Held(d) ==
    {l \in UNION {[1..n -> Selectable(d)] : n \in 0..MaxSelected} :
        \A i, j \in DOMAIN l : l[i] = l[j] => i = j}
Selections ==
    {[dims |-> [d \in Dims |-> IF d \in NamedDims THEN h[d] ELSE <<>>], price |-> pr] :
        h \in [NamedDims -> UNION {Held(d) : d \in NamedDims}],
        pr \in {AbsentField, RangeField}}

\* The values a response names: as RawOf spells them, or in catalog casing.
Spoken(d) == {RawOf(d, k) : k \in RawKinds} \cup {filterOptions[d][1]}

\* The response {d: [v]} of the filter-application prompt, and the response
\* {isRemoveFilter: true, d: [v]} of the filter-removal prompt.
Only(d, v) == [k \in Dims |-> IF k = d THEN ListField(<<v>>) ELSE AbsentField]

StoreStart ==
    /\ ProgramInit /\ apiExists /\ Untracked /\ OneVariant
    /\ filters \in {f \in Selections : \A d \in NamedDims : f.dims[d] \in Held(d)}
    /\ probe \in {[pc |-> "start", d |-> d, v |-> v, before |-> filters, applied |-> filters] :
                     d \in NamedDims, v \in UNION {Spoken(e) : e \in NamedDims}}
    /\ probe.v \in Spoken(probe.d)

\* interpretFilterCommand on the response {d: [v]}, and the store after
\* its calls.
Apply ==
    /\ probe.pc = "start"
    /\ LET r == interpretFilterCommand(GwParsed([dims |-> Only(probe.d, probe.v),
                                                 price |-> AbsentField]))
       IN  /\ filters' = storeAfter(filters, r.calls)
           /\ probe' = [probe EXCEPT !.pc = "applied", !.applied = storeAfter(filters, r.calls)]
    /\ UNCHANGED pvars

\* handleRemoveFilters on the response {isRemoveFilter: true, d: [v]}, and
\* the store after its calls.
Remove ==
    /\ probe.pc = "applied"
    /\ LET r == handleRemoveFilters(GwParsed([isRemoveFilter |-> TRUE,
                                              dims |-> Only(probe.d, probe.v),
                                              price |-> FALSE]))
       IN  filters' = storeAfter(filters, r.calls)
    /\ probe' = [probe EXCEPT !.pc = "removed"]
    /\ UNCHANGED pvars

StoreNext == Apply \/ Remove

StoreSpec == StoreStart /\ [][StoreNext]_vars

\* An application followed by a removal that names the value in a casing of
\* its own (said); passed: the store calls of the removal.
CasingStart ==
    /\ ProgramInit /\ apiExists /\ Untracked /\ OneVariant
    /\ filters \in {f \in Selections : \A d \in NamedDims : f.dims[d] \in Held(d)}
    /\ probe \in {[pc |-> "start", d |-> d, v |-> v, before |-> filters, applied |-> filters,
                    said |-> c, passed |-> <<>>] :
                     d \in NamedDims, v \in UNION {Spoken(e) : e \in NamedDims},
                     c \in Casings}
    /\ probe.v \in Spoken(probe.d)

\* handleRemoveFilters on the response {isRemoveFilter: true, d: [v]} with
\* v in the casing said, and the store after its calls.
RemoveAs ==
    /\ probe.pc = "applied"
    /\ LET r == handleRemoveFilters(GwParsed([isRemoveFilter |-> TRUE,
                                              dims |-> Only(probe.d, Str(probe.v.w, probe.said)),
                                              price |-> FALSE]))
       IN  /\ filters' = storeAfter(filters, r.calls)
           /\ probe' = [probe EXCEPT !.pc = "removed", !.passed = r.calls]
    /\ UNCHANGED pvars

CasingNext == Apply \/ RemoveAs

CasingSpec == CasingStart /\ [][CasingNext]_vars

----------------------------------------------------------------------------
\* The simpler variant of the component: its interpretFilterCommand and its
\* interpretCommand, run on an utterance and on the responses the Gateway
\* gives to their prompts.

\* if (parsedFilters.colors): the field alone, a list of any length or a
\* non-empty string.
Present(f) == f.kind # "absent"

\* interpretFilterCommand of the simpler variant: result, store calls and
\* Gateway calls.
simplerInterpretFilterCommand(g) ==
    LET unknown == [result |-> "unknown", calls |-> <<>>, gw |-> 1] IN
    IF g.kind # "parsed" THEN unknown
    ELSE LET p == g.val
             named == {d \in Dims : Present(p.dims[d])}
         IN  IF \E d \in named : MapThrows(p.dims[d]) THEN unknown
             ELSE LET normalizedFilters ==
                          [k \in FilterKeys |->
                             IF k = "price"
                             THEN (IF p.price.kind # "absent" THEN p.price ELSE AbsentField)
                             ELSE IF k \in named THEN ListField(MapList(k, p.dims[k].vals))
                             ELSE AbsentField]
                  IN  IF \E k \in FilterKeys : normalizedFilters[k].kind # "absent"
                      THEN [result |-> "filters_updated",
                            calls |-> <<Call("updateFilters", normalizedFilters)>>,
                            gw |-> 1]
                      ELSE unknown

\* interpretCommand of the simpler variant: the phrase scan, then the
\* function-selection call.
simplerInterpretCommand(t, g) ==
    IF \E i \in 1..Len(clearFilterPhrases) : includes(t, clearFilterPhrases[i])
    THEN [result |-> "clearFilters", gw |-> 0]
    ELSE IF g.kind = "text" THEN [result |-> g.val, gw |-> 1]
    ELSE [result |-> "unknown", gw |-> 1]

VariantStart ==
    /\ ProgramInit /\ apiExists /\ StoreInit /\ Untracked
    /\ variant \in {[pc |-> "start", t |-> t, filterResponse |-> g, functionResponse |-> f] :
                       t \in DOMAIN Utterances, g \in Failing(FilterResponses),
                       f \in FailingText(FunctionTexts)}

\* The simpler interpretFilterCommand on the filter response.
SimplerFilter ==
    /\ variant.pc = "start"
    /\ variant' = [pc |-> "filter", t |-> variant.t,
                   filterResponse |-> variant.filterResponse,
                   functionResponse |-> variant.functionResponse,
                   filter |-> simplerInterpretFilterCommand(variant.filterResponse)]
    /\ UNCHANGED zvars

\* The simpler interpretCommand on the utterance and the function
\* response, when the filter interpreter returned "unknown" (lines 229-233).
SimplerCommand ==
    /\ variant.pc = "filter"
    /\ variant.filter.result = "unknown"
    /\ variant' = [pc |-> "command", t |-> variant.t,
                   filterResponse |-> variant.filterResponse,
                   functionResponse |-> variant.functionResponse,
                   filter |-> variant.filter,
                   command |-> simplerInterpretCommand(Utterances[variant.t],
                                                       variant.functionResponse)]
    /\ UNCHANGED zvars

VariantNext == SimplerFilter \/ SimplerCommand

VariantSpec == VariantStart /\ [][VariantNext]_vars

----------------------------------------------------------------------------
\* Properties of the listening loop.

NewlyStarted == {s \in Sessions : sess[s] # "starting" /\ sess'[s] = "starting"}

CaptureLive == \E s \in Sessions : Live(sess[s])

FailureEvents == {"unhandled", "error", "error_aborted", "error_other", "start_failed"}
SuccessEvents == {"handled", "onstart", "result", "result_again", "classified", "next_result"}

\* C1: while the component is not disposed, when the onresult handler has
\* finished dispatching the utterances of a result event, it has resumed
\* capture exactly once: exactly one session is started by its last step.
C1_ResumedExactlyOnce ==
    [][\A h \in Handlers :
          (~disposed /\ handlers[h].pc = "cont" /\ handlers'[h].pc = "idle")
             => Cardinality(NewlyStarted) = 1]_vars

\* C2: as long as the component is mounted, not disposed and the capture
\* API exists, a capture session is started or running, or will be again.
C2_NeverStalls ==
    [](( mounted /\ apiExists /\ ~disposed) => <>(disposed \/ CaptureLive))

\* C3: in the step in which the failure counter reaches the threshold, the
\* current session is torn down (stopped, reference cleared) and a delayed
\* restart is scheduled.
C3_ThresholdRestarts ==
    [][(consecutiveErrors < RecoveryThreshold /\ consecutiveErrors' >= RecoveryThreshold)
          => /\ recognitionRef' = 0
             /\ \A s \in Sessions : ~Live(sess'[s])
             /\ timers'["recovery"] = timers["recovery"] + 1]_vars

\* C4: the third failure in a row (failed commands and recognition errors,
\* no handled command in between) schedules the restart of the session.
C4_ThreeFailuresRestart ==
    [][(failStreak = RecoveryThreshold - 1 /\ failStreak' = RecoveryThreshold)
          => timers'["recovery"] = timers["recovery"] + 1]_vars

\* C5: the failure counter is never negative; a step that logs a failure
\* raises it by exactly 1, a step that logs a success sets it to 0, and it
\* reaches the threshold 3 only from 2, by a failure.
C5_CounterDiscipline ==
    /\ [](consecutiveErrors \in Nat)
    /\ [][/\ lastEvent' \in FailureEvents => consecutiveErrors' = consecutiveErrors + 1
          /\ lastEvent' \in SuccessEvents => consecutiveErrors' = 0
          /\ (consecutiveErrors # RecoveryThreshold /\ consecutiveErrors' = RecoveryThreshold)
                => (consecutiveErrors = RecoveryThreshold - 1 /\ lastEvent' \in FailureEvents)]_vars

\* Witness of C5: the counter has just reached the threshold by a failure.
C5_Witness ==
    consecutiveErrors = RecoveryThreshold /\ lastEvent \in FailureEvents

\* C6: once the component is disposed no capture session is started.
C6_NoStartAfterDispose ==
    [][disposed => NewlyStarted = {}]_vars

\* C7: at most one capture session is started or running at any moment.
C7_SingleSession ==
    Cardinality({s \in Sessions : Live(sess[s])}) <= 1

\* C8: while a dispatch is in flight no capture session is running and no
\* second dispatch is in flight.
C8_PausedDuringDispatch ==
    InFlight # {} =>
        /\ Cardinality(InFlight) = 1
        /\ \A s \in Sessions : sess[s] # "active"

\* C9: an 'aborted' recognition error changes neither the failure counter,
\* nor the session reference, nor the timers; any other recognition error
\* raises the counter by 1, clears the reference and schedules a resume.
C9_AbortedSwallowed ==
    [][/\ lastEvent' = "error_aborted"
             => /\ consecutiveErrors' = consecutiveErrors
                /\ recognitionRef' = recognitionRef
                /\ timers' = timers
       /\ lastEvent' = "error_other"
             => /\ consecutiveErrors' = consecutiveErrors + 1
                /\ recognitionRef' = 0
                /\ timers'["resume"] = timers["resume"] + 1]_vars

\* C10: the end of a session that was neither stopped nor in error starts
\* capture again in the same step unless the component is disposed; after
\* disposal the end of a session starts nothing.
C10_EndRestarts ==
    [][/\ (lastEvent' = "end_natural" /\ ~disposed) => NewlyStarted # {}
       /\ (lastEvent' \in {"end", "end_natural"} /\ disposed) => NewlyStarted = {}]_vars


----------------------------------------------------------------------------
\* Properties of the dispatcher.

Done == dpc = "done"
Failures(l) == Cardinality({i \in DOMAIN l : ~l[i]})
Ops(cs) == {cs[i].op : i \in DOMAIN cs}
LastPathway == IF pathways = <<>> THEN "" ELSE pathways[Len(pathways)]

\* A Gateway call that failed or whose response JSON.parse rejects.
Broken(g) == g.kind \in {"fail", "unparsable"}

\* A filter response one dimension of which is not a list of strings.
Malformed(g) ==
    /\ g.kind = "parsed"
    /\ \E d \in Dims : NonEmpty(g.val.dims[d]) /\ MapThrows(g.val.dims[d])

FilterIntents == {"apply_filter", "remove_filter"}

\* C11: an interpreter whose Gateway call failed, whose response cannot be
\* parsed or whose parsed response is malformed reports false / "unknown"
\* and has made no store call, navigation or click at all; after a
\* category navigation the filter interpreter in that case writes nothing
\* to the filter store.
C11_FailsClosed ==
    Done =>
      /\ Len(pathways) = 1 /\ Broken(resp) => handled = "no" /\ calls = <<>>
      /\ intent \in FilterIntents /\ Malformed(resp) => handled = "no" /\ calls = <<>>
      /\ Len(pathways) = 2 /\ (Broken(resp) \/ Malformed(resp))
            => "updateFilters" \notin Ops(calls)

\* C12: a dispatch that ends not handled has navigated nowhere, changed no
\* store, clicked nothing, and logged exactly one failure.
C12_UnhandledTouchesNothing ==
    Done /\ handled = "no" => calls = <<>> /\ Failures(dlog) = 1

\* C13: a failed classification yields general_command, and whatever the
\* classification returns, the dispatch attempts at least one pathway.
C13_AlwaysARoute ==
    /\ classifyPrimaryIntent(GwFail) = "general_command"
    /\ Done => Len(pathways) >= 1

\* C14: the classifier is called first and once; then exactly one pathway
\* is invoked, except that category navigation is followed by the filter
\* interpreter exactly when it navigated.
C14_OnePathway ==
    /\ dpc = "classify" => gwCalls = 0 /\ pathways = <<>>
    /\ dpc = "route" => gwCalls = 1 /\ pathways = <<>>
    /\ dpc = "chain" => pathways = <<"handleCategoryNavigation">> /\ Ops(calls) = {"navigate"}
    /\ Done =>
         IF intent = "category_navigation"
         THEN \/ pathways = <<"handleCategoryNavigation">> /\ calls = <<>>
              \/ /\ pathways = <<"handleCategoryNavigation", "interpretFilterCommand">>
                 /\ calls # <<>> /\ calls[1].op = "navigate"
         ELSE Len(pathways) = 1

\* The utterance contains one of the fixed filter-clearing phrases.
ClearUtterance ==
    utt # 0 /\ \E i \in 1..Len(clearFilterPhrases) : includes(Utterances[utt], clearFilterPhrases[i])

\* C15: an utterance containing a filter-clearing phrase is resolved with no
\* Gateway call beyond the classification, the filter store is cleared,
\* the command is logged as a success and the failure counter is 0.
C15_FastPathClears ==
    Done /\ ClearUtterance =>
      /\ gwCalls <= 1
      /\ "clearFilters" \in Ops(calls)
      /\ handled = "yes"
      /\ Failures(dlog) = 0
      /\ consecutiveErrors = 0

\* C16: when the filter-update response cannot be parsed, the filter
\* interpreter yields "unknown", the filter store is not written, a failure
\* is logged for the command and the failure counter is 1 above its value
\* before the command.
C16_UnparsableFilterCounts ==
    Done /\ LastPathway = "interpretFilterCommand" /\ resp = GwUnparsable =>
      /\ interpretFilterCommand(resp).result = "unknown"
      /\ "updateFilters" \notin Ops(calls)
      /\ Failures(dlog) >= 1
      /\ consecutiveErrors = before + 1

\* A parsed filter response with no filter terms: every dimension absent
\* or an empty list, and no price.
NoTerms(g) ==
    /\ g.kind = "parsed"
    /\ \A d \in Dims : g.val.dims[d].kind = "absent"
                       \/ (g.val.dims[d].kind = "list" /\ g.val.dims[d].vals = <<>>)
    /\ g.val.price.kind = "absent"

CategoryRoutes ==
    [gym |-> "/products/gym", yoga |-> "/products/yoga", running |-> "/products/jogging"]

\* C17: a resolved category navigates to its route, and a filter response
\* with no terms then yields "unknown", writes nothing to the filter store,
\* and the command is logged as handled with no failure.
C17_NavigatesWithoutFilters ==
    [][/\ dpc = "route" /\ dpc' = "chain" =>
            /\ resp'.val.w \in DOMAIN CategoryRoutes
            /\ calls' = <<Call("navigate", CategoryRoutes[resp'.val.w])>>
       /\ dpc = "chain" /\ dpc' = "done" /\ NoTerms(resp') =>
            /\ interpretFilterCommand(resp').result = "unknown"
            /\ calls' = calls
            /\ handled' = "yes"
            /\ dlog' = Append(dlog, TRUE)
            /\ Failures(dlog') = 0
            /\ consecutiveErrors' = 0]_vars

C17_Witness ==
    /\ Done /\ pathways = <<"handleCategoryNavigation", "interpretFilterCommand">>
    /\ NoTerms(resp) /\ resp.val.dims["colors"].kind = "list"
    /\ calls = <<Call("navigate", "/products/yoga")>>

SixFields == {"cardNumber", "expiryDate", "cvv", "name", "email", "address"}

\* C18: an utterance classified as an order completion, on the payment page
\* with all six fields stored, clicks the submit control and navigates
\* nowhere, or navigates to the confirmation step when there is no submit
\* control; in every other case it navigates to the payment page; it is
\* handled in all these cases.  Any other classification does nothing and
\* is not handled.
C18_OrderCompletion ==
    Done /\ intent = "order_completion" =>
      IF resp.kind = "text" /\ resp.val.w = "yes"
      THEN /\ handled = "yes"
           /\ IF reads.page = "/payment" /\ \A f \in SixFields : reads.info[f] \notin {"", "<unread>"}
              THEN \/ reads.submit = "present" /\ calls = <<Call("click", "submit")>>
                   \/ reads.submit = "absent" /\ calls = <<Call("navigate", "/confirmation")>>
              ELSE calls = <<Call("navigate", "/payment")>>
      ELSE handled = "no" /\ calls = <<>>

C18_Witness ==
    /\ Done /\ intent = "order_completion" /\ reads.page = "/payment"
    /\ reads.info["phone"] = "" /\ calls = <<Call("click", "submit")>>

\* C19: the profile the user-info interpreter writes keeps the stored value
\* of every field the response does not name or names with an empty value,
\* and a response naming no field writes nothing.
C19_MergeKeepsFields ==
    Done /\ intent = "user_info" =>
      /\ "updateUserInfo" \in Ops(calls) =>
            /\ resp.kind = "parsed"
            /\ calls[1].op = "updateUserInfo"
            /\ \A f \in InfoFieldSet :
                  resp.val.fields[f] \in {"", Missing} => calls[1].arg[f] = reads.info[f]
            /\ \E f \in InfoFieldSet : resp.val.fields[f] \notin {"", Missing}
      /\ resp.kind = "parsed" /\ (\A f \in InfoFieldSet : resp.val.fields[f] \in {"", Missing})
            => calls = <<>>

C19_Witness ==
    /\ Done /\ intent = "user_info" /\ "updateUserInfo" \in Ops(calls)
    /\ resp.val.fields["email"] = "" /\ resp.val.fields["cvv"] = Missing
    /\ reads.info["email"] = "old" /\ reads.info["cvv"] = "old"
    /\ calls[1].arg["email"] = "old" /\ calls[1].arg["cvv"] = "old"

\* The catalog entries of dimension d whose lower-cased form is that of v.
Canonical(d, v) ==
    {filterOptions[d][i] : i \in {j \in DOMAIN filterOptions[d] :
                                     toLowerCase(filterOptions[d][j]) = toLowerCase(v)}}

\* vs is the list raw with every element replaced by its canonical
\* catalog value, or kept when it has none.
NormalizationOf(d, vs, raw) ==
    /\ Len(vs) = Len(raw)
    /\ \A i \in DOMAIN raw :
          IF Canonical(d, raw[i]) # {} THEN vs[i] \in Canonical(d, raw[i]) ELSE vs[i] = raw[i]

\* C20: every list the filter interpreters pass to the filter store is the
\* normalization of the list the response gave for that dimension, element
\* by element.
C20_StoreGetsNormalized ==
    Done /\ LastPathway \in {"interpretFilterCommand", "handleRemoveFilters"} =>
      \A i \in DOMAIN calls :
         /\ calls[i].op = "updateFilters" =>
               \A d \in Dims : calls[i].arg[d].kind = "list" =>
                  NormalizationOf(d, calls[i].arg[d].vals, resp.val.dims[d].vals)
         /\ calls[i].op = "removeFilter" /\ calls[i].arg.key \in Dims =>
               NormalizationOf(calls[i].arg.key, calls[i].arg.vals,
                               resp.val.dims[calls[i].arg.key].vals)

\* The raw strings a filter or removal response gives for dimension d.
RawValues(d) ==
    IF resp.kind = "parsed" /\ resp.val.dims[d].kind = "list"
    THEN {resp.val.dims[d].vals[i] : i \in DOMAIN resp.val.dims[d].vals}
    ELSE {}

\* C21: normalizing a normalized value gives the same value again, for
\* every dimension and every raw string of a response.
C21_NormalizeIdempotent ==
    Done /\ LastPathway \in {"interpretFilterCommand", "handleRemoveFilters"}
         /\ Ops(calls) \cap {"updateFilters", "removeFilter"} # {} =>
      \A d \in Dims : \A v \in RawValues(d) :
         /\ IsString(normalize(d, v))
         /\ normalize(d, normalize(d, v)) = normalize(d, v)

\* The calls that change external state (a notification changes none).
Mutations(cs) == Cardinality({i \in DOMAIN cs : cs[i].op # "userInfoUpdated"})

\* C26: every interpreter invocation makes at most one Gateway call and at
\* most one change of external state.
C26_OneCallOneMutation ==
    /\ dpc = "chain" => gwCalls <= 2 /\ Mutations(calls) <= 1
    /\ Done => gwCalls <= 1 + Len(pathways) /\ Mutations(calls) <= Len(pathways)

\* C27: off a product page, or on the page of a product the catalog does
\* not hold, the product-action interpreter makes no Gateway call (the
\* classification stays the only one), changes nothing and reports false.
C27_PreconditionFirst ==
    Done /\ intent = "product_action" /\ reads.page # "/product/p1" =>
      gwCalls = 1 /\ resp = NoResp /\ calls = <<>> /\ handled = "no"

C27_Witness ==
    Done /\ intent = "product_action" /\ reads.page = "/product/zz" /\ gwCalls = 1

\* C28: in the general-command pathway an utterance that contains a
\* filter-clearing phrase yields the clear-filters action with no Gateway
\* call beyond the classification; any other utterance costs exactly one
\* more call, whose text is the action taken.
C28_PhraseScanFirst ==
    Done /\ intent = "general_command" =>
      IF ClearUtterance
      THEN gwCalls = 1 /\ resp = NoResp /\ calls = <<Call("clearFilters", "")>>
      ELSE /\ gwCalls = 2
           /\ resp = GwText("goToCart") => calls = <<Call("navigate", "/cart")>>
           /\ resp = GwText("clearFilters") => calls = <<Call("clearFilters", "")>>
           /\ resp = GwText("none") \/ resp = GwFail => calls = <<>> /\ handled = "no"

C28_Witness ==
    /\ Done /\ intent = "general_command" /\ gwCalls = 1
    /\ includes(Utterances[utt], <<"s", "t", "a", "r", "t", " ", "o", "v", "e", "r">>)
    /\ ~includes(Utterances[utt], <<"c", "l", "e", "a", "r">>)

\* A product action that names no action the interpreter knows, or a
\* known one whose payload is missing or unusable.
NoUsableAction(a) ==
    \/ a.action \notin {"none", "size", "quantity", "addToCart"}
    \/ a.action = "size"
          /\ \A i \in DOMAIN ProductSizes : toLowerCase(ProductSizes[i]) # toLowerCase(a.size)
    \/ a.action = "quantity" /\ (~a.quantity.truthy \/ a.quantity.nan \/ a.quantity.n <= 0)

\* C29: a structured action with an unknown tag, or a known tag with a
\* missing or invalid payload, changes nothing and is reported not
\* handled, as the tag "none" is.
C29_UnknownIsNoAction ==
    /\ Done /\ intent = "product_action" /\ resp.kind = "parsed"
         /\ (resp.val.action = "none" \/ NoUsableAction(resp.val))
         => calls = <<>> /\ handled = "no"
    /\ Done /\ intent = "navigation" /\ resp.kind = "parsed"
         /\ resp.val.action \notin {"back", "home"}
         => calls = <<>> /\ handled = "no"

\* C23: every command produces exactly one status update after the
\* "Processing" notice, and it describes the action taken or says that the
\* command was not recognized.
C23_OneStatus ==
    Done =>
      /\ Len(status) = 2
      /\ status[1] = "processing"
      /\ status[2] = IF handled = "yes" THEN "action" ELSE "not_recognized"

C30_Words(t) == SelectSeq(split(t), LAMBDA w : Len(w) > 3)

C30_First(S) == {i \in S : \A j \in S : i <= j}

C30_Resolved(r) ==
    LET n(i) == toLowerCase(products[i].name)
        byName == C30_First({i \in DOMAIN products : n(i) = r})
        byPart == C30_First({i \in DOMAIN products :
                                includes(n(i).w, r.w) \/ includes(r.w, n(i).w)})
        byWord == C30_First({i \in DOMAIN products :
                     \/ \E k \in DOMAIN C30_Words(r.w) : includes(n(i).w, C30_Words(r.w)[k])
                     \/ \E k \in DOMAIN C30_Words(n(i).w) :
                           \E j \in DOMAIN split(r.w) : split(r.w)[j] = C30_Words(n(i).w)[k]})
    IN  IF r = Str(<<"n", "o", "n", "e">>, "lower") THEN {}
        ELSE IF byName # {} THEN byName
        ELSE IF byPart # {} THEN byPart
        ELSE byWord

C30_ThreeStrategies ==
    Done /\ intent = "product_navigation" /\ resp.kind = "text" =>
      LET r == toLowerCase([resp.val EXCEPT !.w = trim(@)]) IN
      IF C30_Resolved(r) = {}
      THEN handled = "no" /\ calls = <<>>
      ELSE /\ handled = "yes"
           /\ \E i \in C30_Resolved(r) : calls = <<Call("navigate", ProductRoute(products[i].id))>>

\* C22: an application of {d: [v]} followed by a removal of {d: [v]}, on
\* a dimension that did not hold the value, leaves dimension d with the
\* selection it had before, and every other dimension and the price range
\* as they were.
Untouched == \A i \in DOMAIN probe.before.dims[probe.d] :
                probe.before.dims[probe.d][i] # normalize(probe.d, probe.v)

C22_RemovalUndoesApplication ==
    probe.pc = "removed" /\ Untouched =>
      /\ filters.dims[probe.d] = probe.before.dims[probe.d]
      /\ \A e \in Dims \ {probe.d} : filters.dims[e] = probe.before.dims[e]
      /\ filters.price = probe.before.price

C22_Witness ==
    /\ probe.pc = "removed" /\ Untouched
    /\ probe.v = Str("m", "lower") /\ probe.d = "sizes"
    /\ probe.before.dims["sizes"] = <<Str("xl", "upper")>>
    /\ probe.applied.dims["sizes"] = <<Str("xl", "upper"), Str("m", "upper")>>
    /\ probe.before.price = RangeField
    /\ filters = probe.before

\* C24: no utterance is passed to the dispatcher twice: a result event
\* whose list is passed to a handler holds no result that an earlier event
\* of the session has passed already.
C24_ConsumedOnce == lastEvent # "result_again"

\* C31: the checkout action of the general-command pathway makes the calls
\* and reports the result that handleOrderCompletion makes and reports, for
\* a positive classification, on the same page, profile and submit control.
C31_CheckoutAsOrderCompletion ==
    Done /\ intent = "general_command" /\ resp.kind = "text" /\ resp.val = "checkout" =>
      LET r == handleOrderCompletion(GwText(Str("yes", "lower")),
                                     reads.page, reads.info, reads.submit)
      IN  /\ calls = r.calls
          /\ handled = (IF r.result THEN "yes" ELSE "no")

\* C35: a general command for which the function-selection call returns a
\* name of the registry is handled, and its last status is not "Command
\* not recognized".
C35_RegisteredIsHandled ==
    Done /\ intent = "general_command" /\ resp.kind = "text"
         /\ resp.val \in availableFunctions =>
      /\ handled = "yes"
      /\ status[Len(status)] # "not_recognized"

\* C32: the ActionLog holds at most 20 entries, newest first: it is the
\* last 20 entries logged (all of them while fewer were logged), so the
\* newest entry is the one just logged and the oldest is the one evicted.
C32_BoundedNewestFirst ==
    /\ Len(actionLog) <= 20
    /\ Len(actionLog) = (IF Len(logHistory) < 20 THEN Len(logHistory) ELSE 20)
    /\ \A i \in DOMAIN actionLog : actionLog[i] = logHistory[i]

C32_Witness ==
    /\ Len(logHistory) = 22 /\ Len(actionLog) = 20
    /\ actionLog[1].action = 22 /\ actionLog[20].action = 3
    /\ \E i \in DOMAIN actionLog : ~actionLog[i].success

\* C33: on the same utterance and the same Gateway responses, the simpler
\* variant's interpretFilterCommand returns what the richer one returns
\* and makes the same store calls, and its interpretCommand returns what
\* the richer one returns.
C33_SimplerIsSubset ==
    /\ variant.pc \in {"filter", "command"} =>
          LET r == interpretFilterCommand(variant.filterResponse) IN
          /\ variant.filter.result = r.result
          /\ variant.filter.calls = r.calls
    /\ variant.pc = "command" =>
          variant.command.result =
             interpretCommand(Utterances[variant.t], variant.functionResponse).result

\* C34: while the capture session reports no error, the failure counter
\* is 0 or 1 when a dispatch completes (handled, unhandled or with an
\* exception), whatever commands failed before.
C34_CounterAtMostOne ==
    [][lastEvent' \in Outcomes => consecutiveErrors' \in {0, 1}]_vars

\* C36: a removal that names, in any casing, the value an application
\* named passes the store exactly the string the application stored, in
\* the dimension of the application.
C36_Stored ==
    {probe.applied.dims[probe.d][i] : i \in DOMAIN probe.applied.dims[probe.d]}
       \ {probe.before.dims[probe.d][i] : i \in DOMAIN probe.before.dims[probe.d]}

C36_RemovalAnyCasing ==
    probe.pc = "removed" /\ "said" \in DOMAIN probe =>
      \A stored \in C36_Stored :
         probe.passed = <<Call("removeFilter", [key |-> probe.d, vals |-> <<stored>>])>>

\* C37: a product-action command sets the quantity only to a positive
\* integer and selects only a size of the product's catalog, in catalog
\* casing; a response that names a size the catalog has not, or a quantity
\* that is no positive number, changes neither.
C37_SizeNamed ==
    /\ resp.val.action = "size" /\ IsString(resp.val.size)
    /\ \E i \in DOMAIN ProductSizes : ProductSizes[i].w = resp.val.size.w

C37_QuantityNamed ==
    /\ resp.val.action = "quantity"
    /\ resp.val.quantity \in {NumberQuantity(<<"1", "2">>), NumberQuantity(<<"2", ".", "5">>),
                               StringQuantity(<<" ", "2", " ", "o", "f">>)}

SpokenCardNumber == <<"4", "1", "1", "1">>

C38_NoCardNumberWritten ==
    \A i \in DOMAIN written : ~includes(written[i].text, SpokenCardNumber)

====
